---------------------------- MODULE Spec2Model ----------------------------
(***************************************************************************)
(* Dynamic-Redirect: two HTTP handlers that resolve an application         *)
(* identifier to a Power Apps "play" URL and answer with a redirect.       *)
(*                                                                         *)
(*   HttpTrigger1/__init__.py  flat configuration file AppMappings.json    *)
(*                             (environment_guid, is_gov, app_mappings)    *)
(*   redirect/__init__.py      app_mappings.json (EnvironmentGUIDs, Apps), *)
(*                             IS_GOV from the process environment, and a  *)
(*                             PRD/TST/DEV prefix on the identifier        *)
(*                                                                         *)
(* Text is modelled two ways.  Identifiers the code slices and uppercases  *)
(* (app_name, AppName, environment codes) are sequences of one-character   *)
(* strings.  Text the code only copies (GUIDs, query keys and values, the  *)
(* literal pieces of an f-string) is an atomic string, and a formatted     *)
(* string is the sequence of its pieces in order.                          *)
(***************************************************************************)
EXTENDS Integers, Sequences, FiniteSets, TLC

VARIABLES
    fileH,        \* HttpTrigger1/AppMappings.json as it is on disk now
    fileR,        \* redirect/app_mappings.json as it is on disk now
    envIsGov,     \* os.environ entry IS_GOV
    cacheH,       \* lru_cache of HttpTrigger1.load_config
    cacheR,       \* lru_cache of redirect.load_config
    okLoads,      \* per handler: bodies of load_config that returned a value
    threads,      \* per worker thread: the request it runs and where it is
    parse_pc,     \* parse_app_name harness: "call" before, "ret" after
    parse_in,     \* parse_app_name harness: the argument
    parse_out     \* parse_app_name harness: the returned tuple

vars == <<fileH, fileR, envIsGov, cacheH, cacheR, okLoads,
          threads, parse_pc, parse_in, parse_out>>

handlerVars == <<fileH, fileR, envIsGov, cacheH, cacheR, okLoads,
                 threads>>

parseVars == <<parse_pc, parse_in, parse_out>>

(***************************************************************************)
(* Bounds                                                                  *)
(***************************************************************************)
\* worker threads that may run requests at the same time
NThreads == 2

\* longest identifier enumerated exhaustively for parse_app_name
MaxLen == 4

(***************************************************************************)
(* Characters and str.upper()                                              *)
(***************************************************************************)
LowerLetters ==
    <<"a","b","c","d","e","f","g","h","i","j","k","l","m",
      "n","o","p","q","r","s","t","u","v","w","x","y","z">>

UpperLetters ==
    <<"A","B","C","D","E","F","G","H","I","J","K","L","M",
      "N","O","P","Q","R","S","T","U","V","W","X","Y","Z">>

UpperChar(c) ==
    IF \E i \in DOMAIN LowerLetters : LowerLetters[i] = c
    THEN UpperLetters[CHOOSE i \in DOMAIN LowerLetters : LowerLetters[i] = c]
    ELSE c

Upper(s) == [i \in DOMAIN s |-> UpperChar(s[i])]

\* s[:n] and s[n:] of Python, for 0 <= n
Prefix(s, n) == SubSeq(s, 1, IF n < Len(s) THEN n ELSE Len(s))

Suffix(s, n) == SubSeq(s, n + 1, Len(s))

SeqContains(list, x) == \E i \in DOMAIN list : list[i] = x

(***************************************************************************)
(* redirect: module constants and parse_app_name                           *)
(***************************************************************************)
PRD == <<"P","R","D">>

TST == <<"T","S","T">>

DEV == <<"D","E","V">>

SUPPORTED_ENVIRONMENTS == <<PRD, TST, DEV>>

DEFAULT_ENVIRONMENT == PRD

parse_app_name_NoUpper(app_name_with_env) ==
    IF Len(app_name_with_env) < 4
    THEN <<DEFAULT_ENVIRONMENT, app_name_with_env>>
    ELSE LET potential_env == Prefix(app_name_with_env, 3)
             app_name == Suffix(app_name_with_env, 3)
         IN  IF SeqContains(SUPPORTED_ENVIRONMENTS, potential_env)
             THEN <<potential_env, app_name>>
             ELSE <<DEFAULT_ENVIRONMENT, app_name_with_env>>

parse_app_name(app_name_with_env) ==
    IF Len(app_name_with_env) < 4
    THEN <<DEFAULT_ENVIRONMENT, app_name_with_env>>
    ELSE LET potential_env == Upper(Prefix(app_name_with_env, 3))
             app_name == Suffix(app_name_with_env, 3)
         IN  IF SeqContains(SUPPORTED_ENVIRONMENTS, potential_env)
             THEN <<potential_env, app_name>>
             ELSE <<DEFAULT_ENVIRONMENT, app_name_with_env>>


(***************************************************************************)
(* Files and JSON documents.  A file is [exists, valid_json, doc]; doc is  *)
(* the parsed JSON object: a function from its keys to their values.  A    *)
(* JSON object whose keys are identifiers (EnvironmentGUIDs, Apps, an      *)
(* app's table) is a function on identifiers; the empty object is <<>>.    *)
(***************************************************************************)
NoDoc == <<>>

MissingFile == [exists |-> FALSE, valid_json |-> FALSE, doc |-> NoDoc]

BadJsonFile == [exists |-> TRUE, valid_json |-> FALSE, doc |-> NoDoc]

JsonFile(doc) == [exists |-> TRUE, valid_json |-> TRUE, doc |-> doc]

HasKey(obj, key) == key \in DOMAIN obj

\* dict.get(key) is truthy: the key is there and its value is a non-empty object
GetIsTruthy(obj, key) == HasKey(obj, key) /\ DOMAIN obj[key] # {}

\* what a call returns: a value, or an exception of the named class
Returned(v) == [raised |-> FALSE, error |-> "", value |-> v]

Raised(cls) == [raised |-> TRUE, error |-> cls, value |-> <<>>]

(***************************************************************************)
(* functools.lru_cache(maxsize=1) around a function of no arguments.  A    *)
(* call looks the one key up; on a miss it runs the body WITHOUT holding   *)
(* the cache lock, and afterwards stores the result unless the key was     *)
(* added meanwhile.  An exception propagates and nothing is stored.        *)
(***************************************************************************)
EmptyCache == [set |-> FALSE, value |-> <<>>]

lru_store_CachesFailure(cache, result) ==
    IF cache.set THEN cache ELSE [set |-> TRUE, value |-> result.value]

lru_store(cache, result) ==
    IF result.raised \/ cache.set
    THEN cache
    ELSE [set |-> TRUE, value |-> result.value]

(***************************************************************************)
(* HttpTrigger1.load_config (the decorated body): every exception leaves   *)
(* as MappingError, ConfigError included, through `except Exception`.      *)
(* The value is the tuple (environment_guid, is_gov, mappings).            *)
(***************************************************************************)
load_config_body_H(file) ==
    IF ~file.exists THEN Raised("MappingError")
    ELSE IF ~file.valid_json THEN Raised("MappingError")
    ELSE IF ~HasKey(file.doc, "environment_guid") THEN Raised("MappingError")
    ELSE IF ~HasKey(file.doc, "is_gov") THEN Raised("MappingError")
    ELSE IF ~HasKey(file.doc, "app_mappings") THEN Raised("MappingError")
    ELSE Returned(<<file.doc["environment_guid"], file.doc["is_gov"],
                    file.doc["app_mappings"]>>)

(***************************************************************************)
(* redirect.load_config (the decorated body): every exception leaves as    *)
(* ConfigError.  A supported environment missing from EnvironmentGUIDs is  *)
(* only logged.  The value is the parsed document itself.                  *)
(***************************************************************************)
load_config_body_R(file) ==
    IF ~file.exists THEN Raised("ConfigError")
    ELSE IF ~file.valid_json THEN Raised("ConfigError")
    ELSE IF ~GetIsTruthy(file.doc, "EnvironmentGUIDs") THEN Raised("ConfigError")
    ELSE IF ~GetIsTruthy(file.doc, "Apps") THEN Raised("ConfigError")
    ELSE Returned(file.doc)

(***************************************************************************)
(* HttpTrigger1.get_mapping after its load_config() call returned          *)
(* `loaded`: the first entry whose AppName equals app_name, else None.     *)
(***************************************************************************)
NoMapping == [found |-> FALSE, entry |-> <<>>]

Mapping(m) == [found |-> TRUE, entry |-> m]

get_mapping_H_LastMatch(app_name, loaded) ==
    IF loaded.raised THEN NoMapping
    ELSE LET mappings == loaded.value[3]
             hits == {i \in DOMAIN mappings : mappings[i]["AppName"] = app_name}
         IN  IF hits = {} THEN NoMapping
             ELSE Mapping(mappings[CHOOSE i \in hits : \A j \in hits : j <= i])

get_mapping_H(app_name, loaded) ==
    IF loaded.raised THEN NoMapping
    ELSE LET mappings == loaded.value[3]
             hits == {i \in DOMAIN mappings : mappings[i]["AppName"] = app_name}
         IN  IF hits = {} THEN NoMapping
             ELSE Mapping(mappings[CHOOSE i \in hits : \A j \in hits : i <= j])

(***************************************************************************)
(* redirect.get_mapping after parse_app_name and its load_config() call    *)
(* returned `loaded`.                                                      *)
(***************************************************************************)
get_mapping_R_DefaultEnv(app_name_with_env, loaded) ==
    LET parsed == parse_app_name(app_name_with_env)
        env_prefix == parsed[1]
        app_name == parsed[2]
    IN  IF loaded.raised THEN NoMapping
        ELSE LET config == loaded.value
             IN  IF env_prefix \notin DOMAIN config["EnvironmentGUIDs"] THEN NoMapping
                 ELSE IF app_name \notin DOMAIN config["Apps"] THEN NoMapping
                 ELSE IF env_prefix \notin DOMAIN config["Apps"][app_name] THEN NoMapping
                 ELSE Mapping([AppName |-> app_name,
                               Environment |-> DEFAULT_ENVIRONMENT,
                               EnvironmentGUID |-> config["EnvironmentGUIDs"][env_prefix],
                               AppGUID |-> config["Apps"][app_name][env_prefix]])

get_mapping_R(app_name_with_env, loaded) ==
    LET parsed == parse_app_name(app_name_with_env)
        env_prefix == parsed[1]
        app_name == parsed[2]
    IN  IF loaded.raised THEN NoMapping
        ELSE LET config == loaded.value
             IN  IF env_prefix \notin DOMAIN config["EnvironmentGUIDs"] THEN NoMapping
                 ELSE IF app_name \notin DOMAIN config["Apps"] THEN NoMapping
                 ELSE IF env_prefix \notin DOMAIN config["Apps"][app_name] THEN NoMapping
                 ELSE Mapping([AppName |-> app_name,
                               Environment |-> env_prefix,
                               EnvironmentGUID |-> config["EnvironmentGUIDs"][env_prefix],
                               AppGUID |-> config["Apps"][app_name][env_prefix]])

(***************************************************************************)
(* URL and query string, as sequences of the f-strings' pieces             *)
(***************************************************************************)
base_url_UsWithoutGov(is_gov) ==
    <<"https://apps.">> \o <<"powerapps">>
        \o (IF is_gov THEN <<".us">> ELSE <<".com">>) \o <<"/play/e">>

base_url(is_gov) ==
    <<"https://apps.">> \o (IF is_gov THEN <<"gov.">> ELSE <<>>) \o <<"powerapps">>
        \o (IF is_gov THEN <<".us">> ELSE <<".com">>) \o <<"/play/e">>

\* "&".join([f"{key}={value}" for key, value in params.items()])
RECURSIVE query_string(_)
query_string(params) ==
    IF params = <<>> THEN <<>>
    ELSE <<params[1][1], "=", params[1][2]>>
            \o (IF Len(params) > 1 THEN <<"&">> ELSE <<>>)
            \o query_string(Tail(params))

\* os.environ.get('IS_GOV', 'false').lower() == 'true'
LowerChar(c) ==
    IF \E i \in DOMAIN UpperLetters : UpperLetters[i] = c
    THEN LowerLetters[CHOOSE i \in DOMAIN UpperLetters : UpperLetters[i] = c]
    ELSE c

Lower(s) == [i \in DOMAIN s |-> LowerChar(s[i])]

UnsetVar == [set |-> FALSE, value |-> <<>>]

SetVar(v) == [set |-> TRUE, value |-> v]

environ_get(var, default) == IF var.set THEN var.value ELSE default

read_is_gov(var) == Lower(environ_get(var, <<"f","a","l","s","e">>)) = <<"t","r","u","e">>

(***************************************************************************)
(* Responses (func.HttpResponse): status, body, Location header.  A body   *)
(* is its fixed text and, where the text quotes the identifier, that       *)
(* identifier.                                                             *)
(***************************************************************************)
NoResponse == [status |-> 0, body |-> [text |-> "", id |-> <<>>], location |-> <<>>]

Response(status, text, id, location) ==
    [status |-> status, body |-> [text |-> text, id |-> id], location |-> location]

PromptText == "Please provide an app_name in the query string."

ConfigErrorText == "Service configuration error"

NotFoundTextH == "App '{app_name}' not found."

NotFoundTextR == "App '{app_name_with_env}' not found or environment not supported."

\* HttpTrigger1.main: redirect_url = f"{base_url}/{environment_guid}/a/{app_guid}"
redirect_url_H(is_gov, environment_guid, app_guid) ==
    base_url(is_gov) \o <<"/", environment_guid, "/a/", app_guid>>

\* redirect.main: the same, then "?{query_string}" when query_string is not empty
redirect_url_R(is_gov, environment_guid, app_guid, qs) ==
    base_url(is_gov) \o <<"/", environment_guid, "/a/", app_guid>>
        \o (IF qs # <<>> THEN <<"?">> \o qs ELSE <<>>)

(***************************************************************************)
(* Requests: req.params as the app_name entry (if any) and the other       *)
(* entries in iteration order.  `not app_name` holds for a missing and for *)
(* an empty value.                                                         *)
(***************************************************************************)
Request(has, name, extras) == [has_app_name |-> has, app_name |-> name, extras |-> extras]

NoRequest == Request(FALSE, <<>>, <<>>)

not_app_name(req) == ~req.has_app_name \/ req.app_name = <<>>

Threads == 1 .. NThreads

IdleThread ==
    [pc |-> "idle", handler |-> "none", req |-> NoRequest, is_gov |-> FALSE,
     cfg |-> Raised(""), loaded_here |-> FALSE, load_failed |-> FALSE,
     after_failure |-> FALSE, mapping |-> NoMapping, resp |-> NoResponse]

\* after_failure: this thread's previous request ran the same handler and its
\* load_config() raised (a history field, read by no action)
NewThread(t, handler, req) ==
    [IdleThread EXCEPT !.handler = handler, !.req = req,
        !.after_failure = threads[t].load_failed /\ threads[t].handler = handler]

Free(t) == threads[t].pc \in {"idle", "done"}

Count(n, h) == [n EXCEPT ![h] = @ + 1]

(***************************************************************************)
(* HttpTrigger1.main                                                       *)
(***************************************************************************)
\* lines 103-106: the request arrives and load_config() looks its cache up
HStart(t, req) ==
    /\ Free(t)
    /\ threads' = [threads EXCEPT ![t] =
          IF cacheH.set
          THEN [NewThread(t, "HttpTrigger1", req) EXCEPT
                    !.pc = "h_main", !.cfg = Returned(cacheH.value)]
          ELSE [NewThread(t, "HttpTrigger1", req) EXCEPT !.pc = "h_load"]]
    /\ UNCHANGED <<fileH, fileR, envIsGov, cacheH, cacheR, okLoads,
                   parseVars>>

\* lines 38-69 after a miss, then the store; lines 107-112 when the body raised
HLoad(t) ==
    /\ threads[t].pc = "h_load"
    /\ LET result == load_config_body_H(fileH)
       IN  /\ cacheH' = lru_store(cacheH, result)
           /\ okLoads' = IF result.raised THEN okLoads ELSE Count(okLoads, "HttpTrigger1")
           /\ threads' = [threads EXCEPT ![t] =
                 IF result.raised
                 THEN [@ EXCEPT !.pc = "done", !.cfg = result, !.load_failed = TRUE,
                           !.resp = Response(500, ConfigErrorText, <<>>, <<>>)]
                 ELSE [@ EXCEPT !.pc = "h_main", !.cfg = result, !.loaded_here = TRUE]]
    /\ UNCHANGED <<fileH, fileR, envIsGov, cacheR, parseVars>>

\* lines 114-144: the app_name check, get_mapping (whose own load_config() call
\* is a hit, or else runs the body), and the response
HMain(t) ==
    /\ threads[t].pc = "h_main"
    /\ LET me == threads[t]
           app_name == me.req.app_name
           environment_guid == me.cfg.value[1]
           is_gov == me.cfg.value[2]
           body == load_config_body_H(fileH)
           second == IF cacheH.set THEN Returned(cacheH.value) ELSE body
           mapping == get_mapping_H(app_name, second)
       IN  IF not_app_name(me.req)
           THEN /\ threads' = [threads EXCEPT ![t] =
                      [@ EXCEPT !.pc = "done",
                                !.resp = Response(400, PromptText, <<>>, <<>>)]]
                /\ UNCHANGED <<cacheH, okLoads>>
           ELSE /\ cacheH' = lru_store(cacheH, second)
                /\ okLoads' = IF ~cacheH.set /\ ~body.raised
                              THEN Count(okLoads, "HttpTrigger1") ELSE okLoads
                /\ threads' = [threads EXCEPT ![t] =
                      [@ EXCEPT !.pc = "done", !.is_gov = is_gov, !.mapping = mapping,
                                !.resp =
                          IF ~mapping.found
                          THEN Response(404, NotFoundTextH, app_name, <<>>)
                          ELSE Response(302, "", <<>>,
                                   redirect_url_H(is_gov, environment_guid,
                                                  mapping.entry["AppGUID"]))]]
    /\ UNCHANGED <<fileH, fileR, envIsGov, cacheR, parseVars>>

(***************************************************************************)
(* redirect.main                                                           *)
(***************************************************************************)
\* lines 152-175 and 101-102: the app_name check, IS_GOV read from the
\* environment, and get_mapping as far as load_config()'s cache lookup
RStart(t, req) ==
    /\ Free(t)
    /\ threads' = [threads EXCEPT ![t] =
          IF not_app_name(req)
          THEN [NewThread(t, "redirect", req) EXCEPT
                    !.pc = "done", !.resp = Response(400, PromptText, <<>>, <<>>)]
          ELSE IF cacheR.set
          THEN [NewThread(t, "redirect", req) EXCEPT
                    !.pc = "r_main", !.is_gov = read_is_gov(envIsGov),
                    !.cfg = Returned(cacheR.value)]
          ELSE [NewThread(t, "redirect", req) EXCEPT
                    !.pc = "r_load", !.is_gov = read_is_gov(envIsGov)]]
    /\ UNCHANGED <<fileH, fileR, envIsGov, cacheH, cacheR, okLoads,
                   parseVars>>

\* lines 32-67 after a miss, then the store
RLoad(t) ==
    /\ threads[t].pc = "r_load"
    /\ LET result == load_config_body_R(fileR)
       IN  /\ cacheR' = lru_store(cacheR, result)
           /\ okLoads' = IF result.raised THEN okLoads ELSE Count(okLoads, "redirect")
           /\ threads' = [threads EXCEPT ![t] =
                 [@ EXCEPT !.pc = "r_main", !.cfg = result,
                           !.loaded_here = ~result.raised,
                           !.load_failed = result.raised]]
    /\ UNCHANGED <<fileH, fileR, envIsGov, cacheH, parseVars>>

\* lines 104-136 and 176-207: the rest of get_mapping (None when load_config
\* raised ConfigError), and the response
RMain(t) ==
    /\ threads[t].pc = "r_main"
    /\ LET me == threads[t]
           mapping == get_mapping_R(me.req.app_name, me.cfg)
       IN  threads' = [threads EXCEPT ![t] =
              [@ EXCEPT !.pc = "done", !.mapping = mapping,
                        !.resp =
                  IF ~mapping.found
                  THEN Response(404, NotFoundTextR, me.req.app_name, <<>>)
                  ELSE Response(302, "", <<>>,
                           redirect_url_R(me.is_gov, mapping.entry["EnvironmentGUID"],
                                          mapping.entry["AppGUID"],
                                          query_string(me.req.extras)))]]
    /\ UNCHANGED <<fileH, fileR, envIsGov, cacheH, cacheR, okLoads,
                   parseVars>>

(***************************************************************************)
(* The environment of the process: the files are rewritten and IS_GOV is   *)
(* set while the process runs.                                             *)
(***************************************************************************)
WriteFileH(file) ==
    /\ file # fileH
    /\ fileH' = file
    /\ UNCHANGED <<fileR, envIsGov, cacheH, cacheR, okLoads,
                   threads, parseVars>>

WriteFileR(file) ==
    /\ file # fileR
    /\ fileR' = file
    /\ UNCHANGED <<fileH, envIsGov, cacheH, cacheR, okLoads,
                   threads, parseVars>>

SetIsGov(var) ==
    /\ var # envIsGov
    /\ envIsGov' = var
    /\ UNCHANGED <<fileH, fileR, cacheH, cacheR, okLoads,
                   threads, parseVars>>

(***************************************************************************)
(* Sample identifiers, documents and requests                              *)
(***************************************************************************)
cip == <<"c","i","p">>

Cip == <<"C","i","p">>

admin == <<"a","d","m","i","n">>

TSTadmin == TST \o admin

TSTcip == TST \o cip

tstcip == <<"t","s","t">> \o cip

DEVcip == DEV \o cip

xyzApp == <<"x","y","z","A","p","p">>

TSTeprf == TST \o <<"e","p","r","f">>

prdCip == <<"p","r","d">> \o Cip

HDocA ==
    [environment_guid |-> "env-guid-1", is_gov |-> FALSE,
     app_mappings |-> << [AppName |-> cip, AppGUID |-> "cip-guid"],
                         [AppName |-> TSTadmin, AppGUID |-> "tstadmin-guid"],
                         [AppName |-> admin, AppGUID |-> "admin-guid"],
                         [AppName |-> cip, AppGUID |-> "cip-guid-second"] >>]

HDocB ==
    [environment_guid |-> "env-guid-2", is_gov |-> TRUE,
     app_mappings |-> << [AppName |-> cip, AppGUID |-> "cip-guid-b"] >>]

HDocNoIsGov ==
    [environment_guid |-> "env-guid-1",
     app_mappings |-> << [AppName |-> cip, AppGUID |-> "cip-guid"] >>]

RDocA ==
    [EnvironmentGUIDs |-> (PRD :> "env-prd" @@ TST :> "env-tst"),
     Apps |-> (cip :> (PRD :> "cip-prd" @@ TST :> "cip-tst" @@ DEV :> "cip-dev")
               @@ admin :> (PRD :> "admin-prd")
               @@ TSTadmin :> (PRD :> "tstadmin-prd" @@ TST :> "tstadmin-tst"))]

RDocB ==
    [EnvironmentGUIDs |-> (PRD :> "env-prd-b" @@ TST :> "env-tst-b" @@ DEV :> "env-dev-b"),
     Apps |-> (cip :> (TST :> "cip-tst-b" @@ DEV :> "cip-dev-b"))]

RDocNoApps == [EnvironmentGUIDs |-> (PRD :> "env-prd")]

RDocEmptyEnvs == [EnvironmentGUIDs |-> <<>>, Apps |-> (cip :> (PRD :> "cip-prd"))]

FilesH == {MissingFile, BadJsonFile, JsonFile(HDocNoIsGov), JsonFile(HDocA), JsonFile(HDocB)}

FilesR == {MissingFile, BadJsonFile, JsonFile(RDocNoApps), JsonFile(RDocEmptyEnvs),
           JsonFile(RDocA), JsonFile(RDocB)}

IsGovValues == {UnsetVar, SetVar(<<"T","R","U","E">>)}

AppNames == {cip, Cip, admin, TSTcip, tstcip, DEVcip, TSTadmin}

TwoParams == << <<"foo", "bar">>, <<"a", "x y&z">> >>

Requests ==
    {Request(FALSE, <<>>, <<>>), Request(FALSE, <<>>, TwoParams), Request(TRUE, <<>>, <<>>)}
        \cup {Request(TRUE, n, <<>>) : n \in AppNames}
        \cup {Request(TRUE, n, TwoParams) : n \in {cip, TSTcip}}

ConcFilesH == {MissingFile, JsonFile(HDocA)}

ConcFilesR == {MissingFile, JsonFile(RDocA)}

ConcRequests == {Request(TRUE, cip, <<>>)}

ParseAlphabet == {"P","R","D","T","S","E","V","t","d","c"}

ParseInputs ==
    UNION {[1 .. n -> ParseAlphabet] : n \in 0 .. MaxLen}
        \cup {TSTeprf, prdCip, xyzApp, TST}

(***************************************************************************)
(* Specifications                                                          *)
(***************************************************************************)
InitHandlers ==
    /\ fileH = JsonFile(HDocA)
    /\ fileR = JsonFile(RDocA)
    /\ envIsGov = UnsetVar
    /\ cacheH = EmptyCache
    /\ cacheR = EmptyCache
    /\ okLoads = [HttpTrigger1 |-> 0, redirect |-> 0]
    /\ threads = [t \in Threads |-> IdleThread]

Init ==
    /\ InitHandlers
    /\ parse_pc = "idle"
    /\ parse_in = <<>>
    /\ parse_out = <<>>

\* requests answered one after another by one worker thread, while the files
\* and IS_GOV change at any moment
Next ==
    \/ \E req \in Requests : HStart(1, req)
    \/ HLoad(1)
    \/ HMain(1)
    \/ \E req \in Requests : RStart(1, req)
    \/ RLoad(1)
    \/ RMain(1)
    \/ \E file \in FilesH : WriteFileH(file)
    \/ \E file \in FilesR : WriteFileR(file)
    \/ \E var \in IsGovValues : SetIsGov(var)

Spec == Init /\ [][Next]_vars

\* requests answered concurrently by NThreads worker threads
NextConc ==
    \/ \E t \in Threads, req \in ConcRequests : HStart(t, req)
    \/ \E t \in Threads : HLoad(t)
    \/ \E t \in Threads : HMain(t)
    \/ \E t \in Threads, req \in ConcRequests : RStart(t, req)
    \/ \E t \in Threads : RLoad(t)
    \/ \E t \in Threads : RMain(t)
    \/ \E file \in ConcFilesH : WriteFileH(file)
    \/ \E file \in ConcFilesR : WriteFileR(file)

SpecConc == Init /\ [][NextConc]_vars

\* the same, while IS_GOV changes too
NextConcEnv ==
    \/ NextConc
    \/ \E var \in IsGovValues : SetIsGov(var)

SpecConcEnv == Init /\ [][NextConcEnv]_vars

\* parse_app_name called on one argument
ParseCall ==
    /\ parse_pc = "call"
    /\ parse_out' = parse_app_name(parse_in)
    /\ parse_pc' = "ret"
    /\ UNCHANGED <<parse_in, handlerVars>>

InitParse ==
    /\ InitHandlers
    /\ parse_pc = "call"
    /\ parse_in \in ParseInputs
    /\ parse_out = <<>>

NextParse == ParseCall

SpecParse == InitParse /\ [][NextParse]_vars

(***************************************************************************)
(* Properties                                                              *)
(***************************************************************************)
Done(t) == threads[t].pc = "done"

InH(t) == threads[t].handler = "HttpTrigger1"

InR(t) == threads[t].handler = "redirect"

Named(t) == ~not_app_name(threads[t].req)

Tokens(url) == {url[i] : i \in DOMAIN url}

\* C1: in both handlers, a request with a non-empty app_name during which
\* load_config raised is answered 500, never 404, 302 or 400.
C1_LoadFailureIs500 ==
    \A t \in Threads :
        (Done(t) /\ Named(t) /\ threads[t].load_failed) => threads[t].resp.status = 500

\* C2: in both handlers, a request without app_name is answered 400 with the
\* prompt, whatever the state of the configuration and its cache.
C2_MissingAppNameIs400 ==
    \A t \in Threads :
        (Done(t) /\ ~threads[t].req.has_app_name)
            => /\ threads[t].resp.status = 400
               /\ threads[t].resp.body.text = PromptText

\* C3: under concurrent first requests the body of load_config returns a
\* value at most once per handler: the callers converge on a single load.
C3_SingleLoad ==
    /\ okLoads.HttpTrigger1 <= 1
    /\ okLoads.redirect <= 1

\* C4: a load_config call that raises leaves the cache as it was, and the
\* cache is filled by a successful load only: as long as no load has
\* succeeded it holds nothing (no value, no error).  A request that follows a
\* failed one therefore runs the body again, and when that load succeeds the
\* request is served from the value it loaded, which is then the cached one.
C4_State ==
    /\ okLoads.HttpTrigger1 = 0 => cacheH = EmptyCache
    /\ okLoads.redirect = 0 => cacheR = EmptyCache
    /\ cacheH.set => cacheH.value # <<>>
    /\ cacheR.set => cacheR.value # <<>>
    /\ \A t \in Threads :
          (threads[t].after_failure /\ threads[t].loaded_here)
              => /\ ~threads[t].cfg.raised
                 /\ InH(t) => cacheH.set
                 /\ InR(t) => cacheR.set
                 /\ Done(t) => threads[t].resp.status # 500

C4_Step ==
    \A t \in Threads :
        /\ (threads[t].pc = "h_load" /\ threads'[t].load_failed) => cacheH' = cacheH
        /\ (threads[t].pc = "r_load" /\ threads'[t].load_failed) => cacheR' = cacheR
        /\ (threads'[t].after_failure /\ ~Free(t)' /\ Free(t) /\ Named(t)')
              => /\ (InH(t)' /\ ~cacheH.set) => threads'[t].pc = "h_load"
                 /\ (InR(t)' /\ ~cacheR.set) => threads'[t].pc = "r_load"

\* C4: failed loads are not cached: C4_State in every state, C4_Step in every step
C4_FailureNotCached == []C4_State /\ [][C4_Step]_vars

\* a request that followed a failed load loaded the configuration itself and
\* was answered with a redirect
C4_Witness ==
    \E t \in Threads :
        /\ Done(t)
        /\ threads[t].after_failure
        /\ threads[t].loaded_here
        /\ threads[t].resp.status = 302

\* C5: every request answered after the first successful load is answered
\* from the same configuration (GUIDs, isGov, mappings), whatever happens to
\* the file and to IS_GOV: any two redirects of one handler used the same.
C5_ConfigFrozen ==
    \A t, u \in Threads :
        (/\ Done(t) /\ Done(u)
         /\ threads[t].handler = threads[u].handler
         /\ threads[t].resp.status = 302 /\ threads[u].resp.status = 302)
            => /\ threads[t].is_gov = threads[u].is_gov
               /\ threads[t].cfg = threads[u].cfg

\* the rule of C6, from its statement: s spells `code` in some letter case
Spells(s, code) ==
    /\ Len(s) = 3
    /\ \A i \in 1 .. 3 : s[i] = code[i] \/ s[i] = LowerChar(code[i])

ParseRule(raw) ==
    IF Len(raw) < 4 THEN <<PRD, raw>>
    ELSE LET first3 == SubSeq(raw, 1, 3)
             rest == SubSeq(raw, 4, Len(raw))
         IN  CASE Spells(first3, PRD) -> <<PRD, rest>>
               [] Spells(first3, TST) -> <<TST, rest>>
               [] Spells(first3, DEV) -> <<DEV, rest>>
               [] OTHER -> <<PRD, raw>>

\* C6: parse_app_name returns, for every identifier, what the rule gives:
\* (PRD, raw) when raw is shorter than 4; (code, raw[3:]) when the first 3
\* characters spell PRD, TST or DEV in any letter case; else (PRD, raw).
C6_ParseMatchesRule ==
    parse_pc = "ret"
        => /\ parse_out = ParseRule(parse_in)
           /\ parse_in = TSTeprf => parse_out = <<TST, <<"e","p","r","f">>>>
           /\ parse_in = prdCip => parse_out = <<PRD, Cip>>
           /\ parse_in = xyzApp => parse_out = <<PRD, xyzApp>>
           /\ parse_in = TST => parse_out = <<PRD, TST>>

\* a prefix in mixed case was recognised and stripped
C6_Witness ==
    /\ parse_pc = "ret"
    /\ parse_in = <<"t","S","t","c">>
    /\ parse_out = <<TST, <<"c">>>>

\* C7: in the redirect handler with a loaded configuration, the identifier
\* resolves iff its environment code is a key of EnvironmentGUIDs, its name a
\* key of Apps and the code a key of Apps[name]; the mapping is then
\* {AppName, Environment, EnvironmentGUID, AppGUID} of those; otherwise the
\* answer is 404 naming the raw identifier.
C7_ResolveR ==
    \A t \in Threads :
        (Done(t) /\ InR(t) /\ Named(t) /\ ~threads[t].cfg.raised)
            => LET raw == threads[t].req.app_name
                   env == parse_app_name(raw)[1]
                   name == parse_app_name(raw)[2]
                   config == threads[t].cfg.value
                   resolves == /\ env \in DOMAIN config.EnvironmentGUIDs
                               /\ name \in DOMAIN config.Apps
                               /\ env \in DOMAIN config.Apps[name]
               IN  /\ threads[t].mapping.found <=> resolves
                   /\ resolves =>
                        threads[t].mapping.entry =
                            [AppName |-> name, Environment |-> env,
                             EnvironmentGUID |-> config.EnvironmentGUIDs[env],
                             AppGUID |-> config.Apps[name][env]]
                   /\ ~resolves =>
                        /\ threads[t].resp.status = 404
                        /\ threads[t].resp.body = [text |-> NotFoundTextR, id |-> raw]

\* a prefixed identifier was resolved in the TST environment
C7_Witness ==
    \E t \in Threads :
        /\ Done(t) /\ InR(t)
        /\ threads[t].req.app_name = TSTcip
        /\ threads[t].mapping.found
        /\ threads[t].mapping.entry.AppGUID = "cip-tst"

PlayUrl(is_gov, environmentGuid, appGuid) ==
    IF is_gov
    THEN <<"https://apps.", "gov.", "powerapps", ".us", "/play/e",
           "/", environmentGuid, "/a/", appGuid>>
    ELSE <<"https://apps.", "powerapps", ".com", "/play/e",
           "/", environmentGuid, "/a/", appGuid>>

\* C8: in both handlers a resolved request is answered 302 with a Location
\* that starts https://apps.gov.powerapps.us/play/e/{env}/a/{app} when isGov
\* and https://apps.powerapps.com/play/e/{env}/a/{app} otherwise, for the GUIDs
\* resolved for the request; "gov." and ".us" occur together or not at all.
C8_PlayUrl ==
    \A t \in Threads :
        (Done(t) /\ threads[t].mapping.found)
            => LET me == threads[t]
                   environmentGuid == IF InH(t) THEN me.cfg.value[1]
                                      ELSE me.mapping.entry.EnvironmentGUID
                   expected == PlayUrl(me.is_gov, environmentGuid, me.mapping.entry.AppGUID)
               IN  /\ me.resp.status = 302
                   /\ Len(me.resp.location) >= Len(expected)
                   /\ SubSeq(me.resp.location, 1, Len(expected)) = expected
                   /\ "gov." \in Tokens(me.resp.location)
                        <=> ".us" \in Tokens(me.resp.location)
                   /\ InH(t) => me.is_gov = me.cfg.value[2]

\* the redirect handler answered with the government host
C8_Witness ==
    \E t \in Threads :
        /\ Done(t) /\ InR(t)
        /\ threads[t].resp.status = 302
        /\ threads[t].is_gov
        /\ "gov." \in Tokens(threads[t].resp.location)

\* C9: in both handlers the Location of a redirect ends with "?" and the
\* request's parameters other than app_name as key=value joined by "&", in
\* order and verbatim, when there are any, and holds no "?" when there are none.
C9_QueryPreserved ==
    \A t \in Threads :
        (Done(t) /\ threads[t].resp.status = 302)
            => LET location == threads[t].resp.location
                   extras == threads[t].req.extras
                   tail == <<"?">> \o query_string(extras)
               IN  IF extras = <<>>
                   THEN "?" \notin Tokens(location)
                   ELSE /\ Len(location) > Len(tail)
                        /\ SubSeq(location, Len(location) - Len(tail) + 1, Len(location)) = tail

\* C10 as stated: in both handlers the table is looked up with the name the
\* parser produces, so the entry resolved is the one of that name.
C10_LookupByParsedName ==
    \A t \in Threads :
        (Done(t) /\ Named(t) /\ threads[t].mapping.found)
            => threads[t].mapping.entry.AppName = parse_app_name(threads[t].req.app_name)[2]

\* C10 as amended: the redirect handler looks Apps up with the name the
\* parser produces (the prefix check comes first); HttpTrigger1 has no
\* parser and looks app_mappings up with the raw identifier, by exact
\* case-sensitive equality on AppName, the first matching entry winning.
C10_LookupPerHandler ==
    \A t \in Threads :
        (Done(t) /\ Named(t) /\ ~threads[t].cfg.raised)
            => LET raw == threads[t].req.app_name
                   mapping == threads[t].mapping
               IN  /\ InR(t) =>
                        LET name == parse_app_name(raw)[2]
                            Apps == threads[t].cfg.value.Apps
                        IN  /\ mapping.found => /\ mapping.entry.AppName = name
                                                /\ name \in DOMAIN Apps
                            /\ name \notin DOMAIN Apps => ~mapping.found
                   /\ InH(t) =>
                        LET mappings == cacheH.value[3]
                            hits == {i \in DOMAIN mappings : mappings[i].AppName = raw}
                        IN  /\ mapping.found <=> hits # {}
                            /\ mapping.found =>
                                 \E i \in hits : /\ mapping.entry = mappings[i]
                                                 /\ \A j \in hits : i <= j

\* HttpTrigger1 resolved the entry named "TSTadmin" for the identifier "TSTadmin"
C10_Witness ==
    \E t \in Threads :
        /\ Done(t) /\ InH(t)
        /\ threads[t].req.app_name = TSTadmin
        /\ threads[t].mapping.found
        /\ threads[t].mapping.entry.AppName = TSTadmin

=============================================================================
